---- MODULE Spec2Model ----
(***************************************************************************)
(* EVM report (scripts/evm.py): text normalisation (_to_float,             *)
(* _parse_date), the CSV reader (read_evm_csv), the EVM engine             *)
(* (compute_evm), the writer (write_csv) and main's call sequence.         *)
(*                                                                         *)
(* Floats are modelled as exact values: not-a-number, the two infinities,  *)
(* and finite rationals n/d in lowest terms.  Rounding, overflow to        *)
(* infinity and the sign of zero are not modelled.                         *)
(* Text is a sequence of one-character strings.                            *)
(***************************************************************************)
EXTENDS Integers, Sequences, FiniteSets

VARIABLES pc, raw, bac, rows, err, out, summary, artifact, madeDir, arg, res

vars == <<pc, raw, bac, rows, err, out, summary, artifact, madeDir, arg, res>>

(***************************************************************************)
(* Float values                                                            *)
(***************************************************************************)
Abs(n) == IF n < 0 THEN -n ELSE n

RECURSIVE Gcd(_, _)
Gcd(a, b) == IF b = 0 THEN a ELSE Gcd(b, a % b)

NaN == [k |-> "nan", n |-> 0, d |-> 1]

Inf(s) == [k |-> "inf", n |-> s, d |-> 1]

\* the finite float n/d, d > 0, in lowest terms
Fin(n, d) ==
    LET g == Gcd(Abs(n), d)
    IN  [k |-> "fin", n |-> n \div g, d |-> d \div g]

Zero == Fin(0, 1)

\* math.isnan
IsNaN(x) == x.k = "nan"

\* math.isinf
IsInf(x) == x.k = "inf"

IsFinite(x) == x.k = "fin"

\* sign of a non-NaN value: -1, 0 or 1
Sign(x) == IF x.n > 0 THEN 1 ELSE IF x.n < 0 THEN -1 ELSE 0

Neg(x) == IF IsNaN(x) THEN NaN ELSE [x EXCEPT !.n = -x.n]

FAbs(x) == IF IsNaN(x) THEN NaN ELSE [x EXCEPT !.n = Abs(x.n)]

\* float a + b
Add(a, b) ==
    IF IsNaN(a) \/ IsNaN(b) THEN NaN
    ELSE IF IsInf(a) /\ IsInf(b) THEN (IF a.n = b.n THEN a ELSE NaN)
    ELSE IF IsInf(a) THEN a
    ELSE IF IsInf(b) THEN b
    ELSE LET g == Gcd(a.d, b.d)
             l == (a.d \div g) * b.d
         IN  Fin(a.n * (l \div a.d) + b.n * (l \div b.d), l)

\* float a - b
Sub(a, b) == Add(a, Neg(b))

\* float a * b
Mul(a, b) ==
    IF IsNaN(a) \/ IsNaN(b) THEN NaN
    ELSE IF IsInf(a) \/ IsInf(b)
         THEN (IF Sign(a) * Sign(b) = 0 THEN NaN ELSE Inf(Sign(a) * Sign(b)))
    ELSE LET g1 == Gcd(Abs(a.n), b.d)
             g2 == Gcd(Abs(b.n), a.d)
         IN  Fin((a.n \div g1) * (b.n \div g2), (a.d \div g2) * (b.d \div g1))

\* float a / b for b # 0 (Python raises ZeroDivisionError on b = 0; every
\* division of the program is guarded by _safe_div)
TrueDiv(a, b) ==
    IF IsNaN(a) \/ IsNaN(b) THEN NaN
    ELSE IF IsInf(a) /\ IsInf(b) THEN NaN
    ELSE IF IsInf(a) THEN Inf(Sign(a) * Sign(b))
    ELSE IF IsInf(b) THEN Zero
    ELSE Mul(a, Fin(Sign(b) * b.d, Abs(b.n)))

\* float a == b (NaN equals nothing)
FloatEq(a, b) == ~IsNaN(a) /\ ~IsNaN(b) /\ a = b

\* math.isclose's default rel_tol, 1e-09 = 1 / RelTolDen, and abs_tol, 0.0
RelTolDen == 1000000000

AbsTol == Zero

\* for finite x, y >= 0:  x <= rel_tol * y, that is x * RelTolDen <= y
LeqRelTol(x, y) == x.n * y.d <= (y.n * x.d) \div RelTolDen

\* for finite x, y >= 0:  x <= y
Leq(x, y) == x.n * y.d <= y.n * x.d

\* diff <= |rel_tol * b| or diff <= |rel_tol * a| or diff <= abs_tol
WithinTolerance(diff, a, b) ==
    \/ LeqRelTol(diff, FAbs(b))
    \/ LeqRelTol(diff, FAbs(a))
    \/ Leq(diff, AbsTol)

\* math.isclose(a, b) with the default tolerances
IsClose(a, b) ==
    IF FloatEq(a, b) THEN TRUE
    ELSE IF IsInf(a) \/ IsInf(b) THEN FALSE
    ELSE IF IsNaN(a) \/ IsNaN(b) THEN FALSE
    ELSE WithinTolerance(FAbs(Sub(b, a)), a, b)

\* _safe_div
SafeDiv(a, b) ==
    IF FloatEq(b, Zero) \/ IsClose(b, Zero) THEN NaN ELSE TrueDiv(a, b)

(***************************************************************************)
(* Text                                                                    *)
(***************************************************************************)
Digits == <<"0", "1", "2", "3", "4", "5", "6", "7", "8", "9">>

IsDigit(c) == \E i \in 1..10 : Digits[i] = c

DigitVal(c) == (CHOOSE i \in 1..10 : Digits[i] = c) - 1

AllDigits(s) == \A i \in 1..Len(s) : IsDigit(s[i])

Contains(s, c) == \E i \in 1..Len(s) : s[i] = c

\* str.rfind for a one-character needle: 0-based index, -1 when absent
RFind(s, c) ==
    IF Contains(s, c)
    THEN (CHOOSE i \in 1..Len(s) : s[i] = c /\ \A j \in (i+1)..Len(s) : s[j] # c) - 1
    ELSE -1

\* str.replace(c, "")
Remove(s, c) == SelectSeq(s, LAMBDA x : x # c)

\* str.replace(c, r) for one-character c and r
Replace(s, c, r) == [i \in 1..Len(s) |-> IF s[i] = c THEN r ELSE s[i]]

RECURSIVE LStrip(_)
LStrip(s) == IF s # <<>> /\ Head(s) = " " THEN LStrip(Tail(s)) ELSE s

RECURSIVE RStrip(_)
RStrip(s) ==
    IF s # <<>> /\ s[Len(s)] = " " THEN RStrip(SubSeq(s, 1, Len(s) - 1)) ELSE s

\* str.strip
Strip(s) == RStrip(LStrip(s))

RECURSIVE IntOf(_)
\* value of a digit string ("" is 0)
IntOf(s) ==
    IF s = <<>> THEN 0
    ELSE 10 * IntOf(SubSeq(s, 1, Len(s) - 1)) + DigitVal(s[Len(s)])

RECURSIVE Pow10(_)
Pow10(k) == IF k = 0 THEN 1 ELSE 10 * Pow10(k - 1)

Raised == [ok |-> FALSE, v |-> NaN]

Returned(v) == [ok |-> TRUE, v |-> v]

\* float(s) of an unsigned decimal literal: digits with at most one point
\* and at least one digit
PyFloatUnsigned(s) ==
    IF s = <<"i", "n", "f">> THEN Returned(Inf(1))
    ELSE IF s = <<"n", "a", "n">> THEN Returned(NaN)
    ELSE IF Contains(s, ".")
    THEN LET p == RFind(s, ".") + 1
             ip == SubSeq(s, 1, p - 1)
             fp == SubSeq(s, p + 1, Len(s))
         IN  IF AllDigits(ip) /\ AllDigits(fp) /\ Len(ip) + Len(fp) > 0
             THEN Returned(Fin(IntOf(ip \o fp), Pow10(Len(fp))))
             ELSE Raised
    ELSE IF AllDigits(s) /\ s # <<>> THEN Returned(Fin(IntOf(s), 1))
    ELSE Raised

\* the value r of the unsigned part, negated after a leading '-'
PyFloatSigned(neg, r) == IF neg /\ r.ok THEN Returned(Neg(r.v)) ELSE r

HasSign(s) == s # <<>> /\ Head(s) = "-"

PyFloatStripped(s) ==
    PyFloatSigned(HasSign(s), PyFloatUnsigned(IF HasSign(s) THEN Tail(s) ELSE s))

\* float(s) for text over digits, '.', ',', '-', ' ' and letters (exponents,
\* underscores and "infinity" are not in the modelled alphabet); ok = FALSE
\* is ValueError
PyFloat(s) == PyFloatStripped(Strip(s))

\* the separator rewriting with '.' always taken as the decimal point when
\* both separators occur
NormalizePointWins(s) ==
    IF Contains(s, ",") /\ Contains(s, ".") THEN Remove(s, ",")
    ELSE IF Contains(s, ",") THEN Replace(s, ",", ".")
    ELSE s

\* the separator rewriting of _to_float on the stripped text
Normalize(s) ==
    IF Contains(s, ",") /\ Contains(s, ".")
    THEN IF RFind(s, ",") > RFind(s, ".")
         THEN Replace(Remove(s, "."), ",", ".")
         ELSE Remove(s, ",")
    ELSE IF Contains(s, ",") /\ ~Contains(s, ".")
         THEN Replace(s, ",", ".")
         ELSE s

ToFloatStripped(s) == IF s = <<>> THEN Returned(NaN) ELSE PyFloat(Normalize(s))

\* _to_float
ToFloat(x) == ToFloatStripped(Strip(x))

(***************************************************************************)
(* Dates                                                                   *)
(***************************************************************************)
\* the three formats of _parse_date, as directive / literal tokens
FmtIso == <<"%Y", "-", "%m", "-", "%d">>

FmtDayFirst == <<"%d", "/", "%m", "/", "%Y">>

FmtYearFirst == <<"%Y", "/", "%m", "/", "%d">>

FmtMonthFirst == <<"%m", "/", "%d", "/", "%Y">>

IsDirective(t) == t \in {"%Y", "%m", "%d"}

In(c, lo, hi) == IsDigit(c) /\ DigitVal(c) >= lo /\ DigitVal(c) <= hi

\* the lengths, in the order of the directive's regex alternatives, of the
\* alternatives that match s at 1-based position p:
\*   %d  3[0-1] | [1-2]\d | 0[1-9] | [1-9] | " "[1-9]
\*   %m  1[0-2] | 0[1-9] | [1-9]
\*   %Y  \d\d\d\d
Alternatives(t, s, p) ==
    LET has(n) == p + n - 1 <= Len(s)
        c1 == s[p]
        c2 == s[p + 1]
        alt(cond, n) == IF cond THEN <<n>> ELSE <<>>
    IN  IF t = "%d"
        THEN alt(has(2) /\ c1 = "3" /\ In(c2, 0, 1), 2)
             \o alt(has(2) /\ In(c1, 1, 2) /\ IsDigit(c2), 2)
             \o alt(has(2) /\ c1 = "0" /\ In(c2, 1, 9), 2)
             \o alt(has(1) /\ In(c1, 1, 9), 1)
             \o alt(has(2) /\ c1 = " " /\ In(c2, 1, 9), 2)
        ELSE IF t = "%m"
        THEN alt(has(2) /\ c1 = "1" /\ In(c2, 0, 2), 2)
             \o alt(has(2) /\ c1 = "0" /\ In(c2, 1, 9), 2)
             \o alt(has(1) /\ In(c1, 1, 9), 1)
        ELSE alt(has(4) /\ AllDigits(SubSeq(s, p, p + 3)), 4)

\* r if it succeeded, else the next attempt
FirstOk(r, next) == IF r.ok THEN r ELSE next

NoMatch == [ok |-> FALSE, end |-> 0, f |-> [t \in {"%Y", "%m", "%d"} |-> 0]]

RECURSIVE MatchFrom(_, _, _, _, _)
RECURSIVE TryAlternatives(_, _, _, _, _, _)
\* the regex match of format tokens k.. against s from position p, with
\* backtracking over the alternatives; f holds the groups matched so far
MatchFrom(s, p, fmt, k, f) ==
    IF k > Len(fmt) THEN [ok |-> TRUE, end |-> p - 1, f |-> f]
    ELSE IF IsDirective(fmt[k])
    THEN TryAlternatives(s, p, fmt, k, f, Alternatives(fmt[k], s, p))
    ELSE IF p <= Len(s) /\ s[p] = fmt[k] THEN MatchFrom(s, p + 1, fmt, k + 1, f)
    ELSE NoMatch

TryAlternatives(s, p, fmt, k, f, alts) ==
    IF alts = <<>> THEN NoMatch
    ELSE FirstOk(MatchFrom(s, p + Head(alts), fmt, k + 1,
                           [f EXCEPT ![fmt[k]] =
                                IntOf(LStrip(SubSeq(s, p, p + Head(alts) - 1)))]),
                 TryAlternatives(s, p, fmt, k, f, Tail(alts)))

IsLeap(y) == y % 4 = 0 /\ (y % 100 # 0 \/ y % 400 = 0)

DaysInMonth(y, m) ==
    IF m = 2 THEN (IF IsLeap(y) THEN 29 ELSE 28)
    ELSE IF m \in {4, 6, 9, 11} THEN 30 ELSE 31

NoDate == [ok |-> FALSE, y |-> 0, m |-> 0, d |-> 0]

\* datetime(y, m, d)
CalendarDate(y, m, d) ==
    IF y < 1 \/ d > DaysInMonth(y, m) THEN NoDate
    ELSE [ok |-> TRUE, y |-> y, m |-> m, d |-> d]

\* the date of regex match r of text s
MatchedDate(s, r) ==
    IF ~r.ok \/ r.end # Len(s) THEN NoDate
    ELSE CalendarDate(r.f["%Y"], r.f["%m"], r.f["%d"])

\* datetime.strptime(s, fmt); ok = FALSE is ValueError (no match, unconverted
\* data remains, or a date the calendar does not have)
Strptime(s, fmt) == MatchedDate(s, MatchFrom(s, 1, fmt, 1, NoMatch.f))

RECURSIVE FirstFormat(_, _)
\* the for loop of _parse_date over the remaining formats
FirstFormat(s, fmts) ==
    IF fmts = <<>> THEN NoDate
    ELSE FirstOk(Strptime(s, Head(fmts)), FirstFormat(s, Tail(fmts)))

\* _parse_date reading slash dates month-first
ParseDateMonthFirst(d) == FirstFormat(Strip(d), <<FmtIso, FmtMonthFirst, FmtYearFirst>>)

\* _parse_date; ok = FALSE is the ValueError naming d
ParseDate(d) == FirstFormat(Strip(d), <<FmtIso, FmtDayFirst, FmtYearFirst>>)

\* datetime comparison (the time of day is always midnight)
DateLt(a, b) ==
    \/ a.y < b.y
    \/ a.y = b.y /\ a.m < b.m
    \/ a.y = b.y /\ a.m = b.m /\ a.d < b.d

RECURSIVE ZeroPad(_, _)
\* n in decimal, zero-padded to w digits
ZeroPad(n, w) ==
    IF w = 0 THEN <<>> ELSE ZeroPad(n \div 10, w - 1) \o <<Digits[(n % 10) + 1]>>

\* date.strftime("%Y-%m-%d") for years of four digits
Strftime(dt) == ZeroPad(dt.y, 4) \o <<"-">> \o ZeroPad(dt.m, 2) \o <<"-">> \o ZeroPad(dt.d, 2)

(***************************************************************************)
(* read_evm_csv                                                            *)
(***************************************************************************)
REQUIRED_COLS == <<"Date", "PV", "EV", "AC">>

\* an exception: its class, what it reports, and for a row error the file row
\* number, the column names the message names and the text it quotes
Error(type, what, row, names, text) ==
    [type |-> type, what |-> what, row |-> row, names |-> names, text |-> text]

NoError == Error("none", "none", 0, {}, <<>>)

\* the ValueError of _parse_date: it names the text d as given
UnrecognizedDate(d) == Error("ValueError", "Unrecognized Date format", 0, {"Date"}, <<d>>)

\* the argument _to_float hands to float(), which float's ValueError quotes
FloatArg(x) == Normalize(Strip(x))

Amounts == <<"PV", "EV", "AC">>

\* the first of PV, EV, AC in the set S of column names
FirstAmount(S) == Amounts[CHOOSE j \in 1..3 : Amounts[j] \in S /\ \A h \in 1..(j - 1) : Amounts[h] \notin S]

RowError(i, what, names, text) ==
    [ok |-> FALSE, row |-> [date |-> NoDate, pv |-> NaN, ev |-> NaN, ac |-> NaN],
     err |-> Error("ValueError", what, i, names, text)]

\* the outcome of one iteration of the row loop on raw row r, file row i,
\* with date = _parse_date(r["Date"]) and v[c] = _to_float(r[c]): the EVMRow,
\* or the ValueError raised.  An error carries the row number, the column
\* names its message names, and the text its message quotes.
RowOutcome(r, i, date, v) ==
    IF ~date.ok
    THEN RowError(i, "Error parsing row", UnrecognizedDate(r.Date).names,
                  UnrecognizedDate(r.Date).text)
    ELSE IF \E c \in DOMAIN v : ~v[c].ok
    THEN RowError(i, "Error parsing row", {},
                  <<FloatArg(r[FirstAmount({c \in DOMAIN v : ~v[c].ok})])>>)
    ELSE IF \E c \in DOMAIN v : IsNaN(v[c].v)
    THEN RowError(i, "empty/non-numeric PV/EV/AC", {"PV", "EV", "AC"},
                  <<r.Date, r.PV, r.EV, r.AC>>)
    ELSE [ok |-> TRUE, row |-> [date |-> date, pv |-> v.PV.v, ev |-> v.EV.v, ac |-> v.AC.v],
          err |-> NoError]

\* the body of the row loop
ParseRow(r, i) ==
    RowOutcome(r, i, ParseDate(r.Date), [c \in {"PV", "EV", "AC"} |-> ToFloat(r[c])])

RECURSIVE ReadLoop(_, _, _)
RECURSIVE ReadNext(_, _, _, _)
\* the row loop: file rows are numbered from 2 (the header is row 1)
ReadLoop(data, k, acc) ==
    IF k > Len(data) THEN [ok |-> TRUE, rows |-> acc, err |-> NoError]
    ELSE ReadNext(data, k, acc, ParseRow(data[k], k + 1))

\* rows.append on a row that parsed, the raise on one that did not
ReadNext(data, k, acc, r) ==
    IF r.ok THEN ReadLoop(data, k + 1, Append(acc, r.row))
    ELSE [ok |-> FALSE, rows |-> <<>>, err |-> r.err]

RECURSIVE InsertByDate(_, _)
\* r placed after every row of the sorted s whose date is not later
InsertByDate(s, r) ==
    IF s = <<>> THEN <<r>>
    ELSE IF DateLt(r.date, s[Len(s)].date)
         THEN Append(InsertByDate(SubSeq(s, 1, Len(s) - 1), r), s[Len(s)])
         ELSE Append(s, r)

RECURSIVE SortFrom(_, _, _)
SortFrom(s, k, acc) ==
    IF k > Len(s) THEN acc ELSE SortFrom(s, k + 1, InsertByDate(acc, s[k]))

\* rows.sort(key=date) left out
SortNot(s) == s

\* rows.sort(key=lambda x: x.date): the stable ascending sort
SortByDate(s) == SortFrom(s, 1, <<>>)

\* the rows of a completed loop, sorted before they are returned
SortedIfRead(r) == IF r.ok THEN [r EXCEPT !.rows = SortByDate(r.rows)] ELSE r

\* read_evm_csv(path) on file f = [exists, fieldnames, data]
ReadEvmCsv(f) ==
    LET fail(type, what, names) ==
            [ok |-> FALSE, rows |-> <<>>, err |-> Error(type, what, 0, names, <<>>)]
        missing == {c \in {REQUIRED_COLS[j] : j \in 1..4} : ~Contains(f.fieldnames, c)}
    IN  IF ~f.exists THEN fail("FileNotFoundError", "Input file not found", {})
        ELSE IF ~f.hasHeader THEN fail("ValueError", "CSV has no header row", {})
        ELSE IF missing # {}
             THEN fail("ValueError", "Missing required columns", missing)
        ELSE SortedIfRead(ReadLoop(f.data, 1, <<>>))

(***************************************************************************)
(* compute_evm                                                             *)
(***************************************************************************)
None == [some |-> FALSE, v |-> NaN]

Some(v) == [some |-> TRUE, v |-> v]

\* the detail record of a row, given the running totals after adding it
Detail(r, cum_pv, cum_ev, cum_ac) ==
    [Date |-> Strftime(r.date),
     PV_period |-> r.pv, EV_period |-> r.ev, AC_period |-> r.ac,
     PV_cum |-> cum_pv, EV_cum |-> cum_ev, AC_cum |-> cum_ac,
     SV |-> Sub(cum_ev, cum_pv),
     CV |-> Sub(cum_ev, cum_ac),
     SPI |-> SafeDiv(cum_ev, cum_pv),
     CPI |-> SafeDiv(cum_ev, cum_ac)]

RECURSIVE FoldPeriodOnly(_, _, _, _, _, _)
\* the for loop with the running totals overwritten by the period values
FoldPeriodOnly(rs, k, cum_pv, cum_ev, cum_ac, acc) ==
    IF k > Len(rs) THEN acc
    ELSE FoldPeriodOnly(rs, k + 1, rs[k].pv, rs[k].ev, rs[k].ac,
                        Append(acc, Detail(rs[k], rs[k].pv, rs[k].ev, rs[k].ac)))

RECURSIVE Fold(_, _, _, _, _, _)
\* the for loop of compute_evm from row k on
Fold(rs, k, cum_pv, cum_ev, cum_ac, acc) ==
    IF k > Len(rs) THEN acc
    ELSE LET pv == Add(cum_pv, rs[k].pv)
             ev == Add(cum_ev, rs[k].ev)
             ac == Add(cum_ac, rs[k].ac)
         IN  Fold(rs, k + 1, pv, ev, ac, Append(acc, Detail(rs[k], pv, ev, ac)))

\* last taken as out[0]
LastGetFirst(o, key, default) == IF o # <<>> THEN o[1][key] ELSE default

\* every default taken as 0.0
LastGetZero(o, key, default) == IF o # <<>> THEN o[Len(o)][key] ELSE Zero

\* last.get(key, default) with last = out[-1] if out else {}
LastGet(o, key, default) == IF o # <<>> THEN o[Len(o)][key] ELSE default

\* bac if bac else inferred_bac: a BAC of 0 taken as absent
BacFinalFalsy(o, b) == IF b.some /\ b.v # Zero THEN b.v ELSE LastGet(o, "PV_cum", Zero)

\* bac if bac is not None else inferred_bac
BacFinal(o, b) == IF b.some THEN b.v ELSE LastGet(o, "PV_cum", Zero)

\* the summary of compute_evm, from the detail sequence o and the bac argument
Summary(o, b) ==
    LET bac_final == BacFinal(o, b)
        cpi_last == LastGet(o, "CPI", NaN)
        spi_last == LastGet(o, "SPI", NaN)
        ac_last == LastGet(o, "AC_cum", Zero)
        ev_last == LastGet(o, "EV_cum", Zero)
        eac_cpi == IF ~IsNaN(cpi_last) THEN SafeDiv(bac_final, cpi_last) ELSE NaN
        denom == IF ~IsNaN(cpi_last) /\ ~IsNaN(spi_last)
                 THEN Mul(cpi_last, spi_last) ELSE NaN
        eac_cpi_spi == IF ~IsNaN(denom)
                       THEN Add(ac_last, SafeDiv(Sub(bac_final, ev_last), denom))
                       ELSE NaN
        etc_cpi == IF ~IsNaN(eac_cpi) THEN Sub(eac_cpi, ac_last) ELSE NaN
        etc_cpi_spi == IF ~IsNaN(eac_cpi_spi) THEN Sub(eac_cpi_spi, ac_last) ELSE NaN
        vac_cpi == IF ~IsNaN(eac_cpi) THEN Sub(bac_final, eac_cpi) ELSE NaN
        vac_cpi_spi == IF ~IsNaN(eac_cpi_spi) THEN Sub(bac_final, eac_cpi_spi) ELSE NaN
    IN  [BAC |-> bac_final,
         BAC_source |-> IF b.some THEN "user" ELSE "inferred_from_last_PV_cum",
         PV_cum |-> LastGet(o, "PV_cum", Zero),
         EV_cum |-> LastGet(o, "EV_cum", Zero),
         AC_cum |-> LastGet(o, "AC_cum", Zero),
         SPI |-> LastGet(o, "SPI", NaN),
         CPI |-> LastGet(o, "CPI", NaN),
         SV |-> LastGet(o, "SV", NaN),
         CV |-> LastGet(o, "CV", NaN),
         EAC_CPI |-> eac_cpi, ETC_CPI |-> etc_cpi, VAC_CPI |-> vac_cpi,
         EAC_CPI_SPI |-> eac_cpi_spi, ETC_CPI_SPI |-> etc_cpi_spi,
         VAC_CPI_SPI |-> vac_cpi_spi]

\* return out, summary
Returns(o, b) == [detail |-> o, summary |-> Summary(o, b)]

\* compute_evm(rows, bac)
ComputeEvm(rs, b) == Returns(Fold(rs, 1, Zero, Zero, Zero, <<>>), b)

(***************************************************************************)
(* Inputs                                                                  *)
(***************************************************************************)
\* most data rows of an input file
MaxRows == 2

\* longest text handed to _to_float on its own
MaxTextLen == 4

SeqsUpTo(S, n) == UNION {[1..k -> S] : k \in 0..n}

\* 2024-01-31, and 1 February 2024 written day-first
GoodDates ==
    { <<"2", "0", "2", "4", "-", "0", "1", "-", "3", "1">>,
      <<"0", "1", "/", "0", "2", "/", "2", "0", "2", "4">> }

\* no format reads a two-digit leading field followed by '-'
BadDate == <<"0", "2", "-", "0", "1", "-", "2", "0", "2", "4">>

GoodRows ==
    [Date : GoodDates,
     PV : { <<"0">>, <<"1", ",", "5">>, <<"i", "n", "f">> },
     EV : { <<" ", "1">>, <<"-", "1">> },
     AC : { <<"0">>, <<"2">> }]

BaseRow ==
    [Date |-> <<"2", "0", "2", "4", "-", "0", "1", "-", "3", "1">>,
     PV |-> <<"1", ",", "5">>, EV |-> <<" ", "1">>, AC |-> <<"2">>]

\* rows with a field that does not parse, or parses to not-a-number
BadRows ==
    { [BaseRow EXCEPT !.Date = BadDate],
      [BaseRow EXCEPT !.Date = BadDate, !.AC = <<"x">>],
      [BaseRow EXCEPT !.PV = <<"n", "a", "n">>],
      [BaseRow EXCEPT !.EV = <<" ">>],
      [BaseRow EXCEPT !.AC = <<"1", ".", "2", ",", "3", ".", "4">>],
      [BaseRow EXCEPT !.AC = <<"x">>] }

RawRows == GoodRows \cup BadRows

Files ==
    { [exists |-> FALSE, hasHeader |-> FALSE, fieldnames |-> <<>>, data |-> <<>>],
      [exists |-> TRUE, hasHeader |-> FALSE, fieldnames |-> <<>>, data |-> <<>>],
      [exists |-> TRUE, hasHeader |-> TRUE, fieldnames |-> <<"Date", "PV", "EV">>,
       data |-> <<>>] }
    \cup { [exists |-> TRUE, hasHeader |-> TRUE,
            fieldnames |-> <<"PV", "Date", "Note", "EV", "AC">>, data |-> d] :
           d \in SeqsUpTo(RawRows, MaxRows) }

BacArgs == { None, Some(Zero), Some(Fin(5, 1)) }

\* what write_csv leaves on disk: nothing, or the header and the data rows
NoArtifact == [written |-> FALSE, fieldnames |-> <<>>, nrows |-> 0]

DetailFields ==
    <<"Date", "PV_period", "EV_period", "AC_period", "PV_cum", "EV_cum", "AC_cum",
      "SV", "CV", "SPI", "CPI">>

(***************************************************************************)
(* main: read_evm_csv, compute_evm, write_csv                              *)
(***************************************************************************)
Init ==
    /\ pc = "read"
    /\ raw \in Files
    /\ bac \in BacArgs
    /\ rows = <<>>
    /\ err = NoError
    /\ out = <<>>
    /\ summary = <<>>
    /\ artifact = NoArtifact
    /\ madeDir = FALSE
    /\ arg = <<>>
    /\ res = <<>>

\* rows = read_evm_csv(in_path)
CallReadEvmCsv ==
    /\ pc = "read"
    /\ \E r \in {ReadEvmCsv(raw)} :
           IF r.ok
           THEN /\ rows' = r.rows
                /\ pc' = "compute"
                /\ UNCHANGED err
           ELSE /\ err' = r.err
                /\ pc' = "failed"
                /\ UNCHANGED rows
    /\ UNCHANGED <<raw, bac, out, summary, artifact, madeDir, arg, res>>

\* detail, summary = compute_evm(rows, args.bac)
CallComputeEvm ==
    /\ pc = "compute"
    /\ \E r \in {ComputeEvm(rows, bac)} :
           /\ out' = r.detail
           /\ summary' = r.summary
    /\ pc' = "write"
    /\ UNCHANGED <<raw, bac, rows, err, artifact, madeDir, arg, res>>

\* write_csv(out_path, detail)
WriteCsv ==
    /\ pc = "write"
    /\ madeDir' = TRUE
    /\ IF out = <<>>
       THEN /\ err' = Error("ValueError", "No rows to write", 0, {}, <<>>)
            /\ pc' = "failed"
            /\ UNCHANGED artifact
       ELSE /\ artifact' = [written |-> TRUE, fieldnames |-> DetailFields,
                            nrows |-> Len(out)]
            /\ pc' = "done"
            /\ UNCHANGED err
    /\ UNCHANGED <<raw, bac, rows, out, summary, arg, res>>

Next == CallReadEvmCsv \/ CallComputeEvm \/ WriteCsv

Spec == Init /\ [][Next]_vars

(***************************************************************************)
(* _to_float, _parse_date and _safe_div called on their own                *)
(***************************************************************************)
Idle ==
    /\ raw = [exists |-> FALSE, hasHeader |-> FALSE, fieldnames |-> <<>>, data |-> <<>>]
    /\ bac = None
    /\ rows = <<>>
    /\ err = NoError
    /\ out = <<>>
    /\ summary = <<>>
    /\ artifact = NoArtifact
    /\ madeDir = FALSE

Alphabet == {"1", "2", ",", ".", " "}

\* the numeric examples of the documentation: 12,345.67  12.345,67  1234,56
NumberExamples ==
    { <<"1", "2", ",", "3", "4", "5", ".", "6", "7">>,
      <<"1", "2", ".", "3", "4", "5", ",", "6", "7">>,
      <<"1", "2", "3", "4", ",", "5", "6">> }

ToFloatInit ==
    /\ Idle
    /\ pc = "call"
    /\ arg \in SeqsUpTo(Alphabet, MaxTextLen) \cup NumberExamples
    /\ res = <<>>

CallToFloat ==
    /\ pc = "call"
    /\ res' = ToFloat(arg)
    /\ pc' = "returned"
    /\ UNCHANGED <<raw, bac, rows, err, out, summary, artifact, madeDir, arg>>

SpecToFloat == ToFloatInit /\ [][CallToFloat]_vars

DateFields ==
    { <<"2", "0", "2", "4">>, <<"2", "0", "2", "3">>, <<"0", "0", "0", "0">>,
      <<"0", "3">>, <<"0", "4">>, <<"3">>, <<" ", "4">>, <<"0", "2">>,
      <<"1", "3">>, <<"2", "9">>, <<"3", "1">>, <<"0", "0">> }

\* texts of three fields and two separators, with optional blanks around
DateInputs ==
    { pre \o a \o <<s1>> \o b \o <<s2>> \o c \o post :
        a \in DateFields, b \in DateFields, c \in DateFields,
        s1 \in {"-", "/"}, s2 \in {"-", "/"},
        pre \in {<<>>, <<" ">>}, post \in {<<>>, <<" ">>, <<"x">>} }

ParseDateInit ==
    /\ Idle
    /\ pc = "call"
    /\ arg \in DateInputs
    /\ res = <<>>

CallParseDate ==
    /\ pc = "call"
    /\ \E r \in {ParseDate(arg)} :
           res' = [date |-> r,
                   raised |-> IF r.ok THEN NoError ELSE UnrecognizedDate(arg)]
    /\ pc' = "returned"
    /\ UNCHANGED <<raw, bac, rows, err, out, summary, artifact, madeDir, arg>>

SpecParseDate == ParseDateInit /\ [][CallParseDate]_vars

\* a denominator as small as math.isclose's default relative tolerance
Tiny == Fin(1, RelTolDen)

Numerators ==
    { NaN, Inf(1), Inf(-1), Zero, Fin(1, 1), Fin(-1, 1), Fin(2, 1), Fin(1, 2),
      Fin(-3, 2), Fin(1, 4) }

Denominators ==
    { NaN, Inf(1), Inf(-1), Zero, Tiny, Neg(Tiny), Fin(1, 1), Fin(-1, 1),
      Fin(2, 1), Fin(1, 2), Fin(3, 1) }

SafeDivInit ==
    /\ Idle
    /\ pc = "call"
    /\ arg \in Numerators \X Denominators
    /\ res = <<>>

CallSafeDiv ==
    /\ pc = "call"
    /\ res' = SafeDiv(arg[1], arg[2])
    /\ pc' = "returned"
    /\ UNCHANGED <<raw, bac, rows, err, out, summary, artifact, madeDir, arg>>

SpecSafeDiv == SafeDivInit /\ [][CallSafeDiv]_vars

(***************************************************************************)
(* Properties                                                              *)
(***************************************************************************)
\* compute_evm has returned: out and summary hold its result
Computed == pc \in {"write", "done"} \/ (pc = "failed" /\ madeDir)

RECURSIVE CumSum(_, _, _)
\* the sum of field f over rows 1..i, starting from zero
CumSum(rs, f, i) == IF i = 0 THEN Zero ELSE Add(CumSum(rs, f, i - 1), rs[i][f])

\* a / b, not-a-number when b is zero
Ratio(a, b) == IF b = Zero THEN NaN ELSE TrueDiv(a, b)

\* C1: compute_evm emits one detail record per ledger row, in ledger order;
\* record i carries row i's period PV/EV/AC, the sums of the period values
\* of rows 1..i as PV_cum/EV_cum/AC_cum, SV = EV_cum - PV_cum,
\* CV = EV_cum - AC_cum, SPI = EV_cum / PV_cum and CPI = EV_cum / AC_cum.
C1_DetailPerRow ==
    Computed =>
        /\ Len(out) = Len(rows)
        /\ \A i \in 1..Len(rows) :
            LET o == out[i]
            IN  /\ o.PV_period = rows[i].pv
                /\ o.EV_period = rows[i].ev
                /\ o.AC_period = rows[i].ac
                /\ o.PV_cum = CumSum(rows, "pv", i)
                /\ o.EV_cum = CumSum(rows, "ev", i)
                /\ o.AC_cum = CumSum(rows, "ac", i)
                /\ o.SV = Sub(o.EV_cum, o.PV_cum)
                /\ o.CV = Sub(o.EV_cum, o.AC_cum)
                /\ o.SPI = Ratio(o.EV_cum, o.PV_cum)
                /\ o.CPI = Ratio(o.EV_cum, o.AC_cum)

C1_Witness ==
    /\ Computed
    /\ Len(out) = 2
    /\ out[2].PV_cum # out[2].PV_period
    /\ out[2].EV_cum # out[2].EV_period
    /\ IsFinite(out[2].SPI) /\ out[2].SPI # Zero
    /\ IsFinite(out[2].CPI)

\* C2: on a non-empty ledger the summary's forecasts follow from the last
\* detail record: EAC = BAC / CPI, ETC = EAC - AC, VAC = BAC - EAC (cost
\* only); EAC = AC + (BAC - EV) / (CPI * SPI), ETC = EAC - AC,
\* VAC = BAC - EAC (cost x schedule); a not-a-number CPI (or SPI, for the
\* combined model) makes every forecast that depends on it not-a-number.
C2_Forecasts ==
    Computed /\ out # <<>> =>
        LET l == out[Len(out)]
            B == summary.BAC
            eac1 == Ratio(B, l.CPI)
            eac2 == Add(l.AC_cum, Ratio(Sub(B, l.EV_cum), Mul(l.CPI, l.SPI)))
        IN  /\ summary.EAC_CPI = eac1
            /\ summary.ETC_CPI = Sub(eac1, l.AC_cum)
            /\ summary.VAC_CPI = Sub(B, eac1)
            /\ summary.EAC_CPI_SPI = eac2
            /\ summary.ETC_CPI_SPI = Sub(eac2, l.AC_cum)
            /\ summary.VAC_CPI_SPI = Sub(B, eac2)
            /\ IsNaN(l.CPI) =>
                   /\ IsNaN(summary.EAC_CPI)
                   /\ IsNaN(summary.ETC_CPI)
                   /\ IsNaN(summary.VAC_CPI)
            /\ IsNaN(l.CPI) \/ IsNaN(l.SPI) =>
                   /\ IsNaN(summary.EAC_CPI_SPI)
                   /\ IsNaN(summary.ETC_CPI_SPI)
                   /\ IsNaN(summary.VAC_CPI_SPI)

C2_Witness ==
    /\ Computed
    /\ Len(out) = 2
    /\ out[1].CPI # out[2].CPI
    /\ IsFinite(summary.EAC_CPI) /\ IsFinite(summary.EAC_CPI_SPI)
    /\ summary.EAC_CPI # summary.EAC_CPI_SPI
    /\ summary.VAC_CPI # Zero

\* C3: a supplied BAC, 0 included, is the summary's BAC verbatim with the
\* user tag; without one the BAC is the ledger's final cumulative PV with
\* the inferred tag.
C3_BacResolution ==
    Computed =>
        IF bac.some
        THEN summary.BAC = bac.v /\ summary.BAC_source = "user"
        ELSE /\ summary.BAC = CumSum(rows, "pv", Len(rows))
             /\ summary.BAC_source = "inferred_from_last_PV_cum"

C3_Witness ==
    /\ Computed
    /\ bac = Some(Zero)
    /\ rows # <<>>
    /\ CumSum(rows, "pv", Len(rows)) # Zero
    /\ summary.BAC = Zero

\* a denominator counts as near zero within this absolute tolerance
NearZeroTol == Tiny

\* C4: _safe_div yields not-a-number whenever its denominator is exactly
\* zero or non-zero within a small absolute tolerance of zero.
C4_NearZeroIsNaN ==
    pc = "returned" /\ IsFinite(arg[2]) /\ Leq(FAbs(arg[2]), NearZeroTol)
        => IsNaN(res)

Separators == {",", "."}

Blank(s) == \A i \in 1..Len(s) : s[i] = " "

\* the rightmost separator of a text that has one
LastSeparator(s) ==
    s[CHOOSE i \in 1..Len(s) :
        s[i] \in Separators /\ \A j \in (i + 1)..Len(s) : s[j] \notin Separators]

\* the locale policy on a trimmed, non-empty text
LocalePolicy(s) ==
    IF \A c \in Separators : Contains(s, c)
    THEN LET dec == LastSeparator(s)
             kept == SelectSeq(s, LAMBDA c : c \notin Separators \/ c = dec)
         IN  PyFloat([i \in 1..Len(kept) |-> IF kept[i] = dec THEN "." ELSE kept[i]])
    ELSE IF Contains(s, ",")
    THEN PyFloat([i \in 1..Len(s) |-> IF s[i] = "," THEN "." ELSE s[i]])
    ELSE PyFloat(s)

\* C5: _to_float follows the locale policy: with both separators the
\* rightmost one is the decimal point and the other is stripped; a comma
\* alone is the decimal point; otherwise the text is a plain decimal; empty
\* or blank text is not-a-number.  12,345.67 and 12.345,67 give 12345.67 and
\* 1234,56 gives 1234.56.
C5_LocalePolicy ==
    pc = "returned" =>
        /\ res = IF Blank(arg) THEN Returned(NaN) ELSE LocalePolicy(Strip(arg))
        /\ arg = <<"1", "2", ",", "3", "4", "5", ".", "6", "7">>
               => res = Returned(Fin(1234567, 100))
        /\ arg = <<"1", "2", ".", "3", "4", "5", ",", "6", "7">>
               => res = Returned(Fin(1234567, 100))
        /\ arg = <<"1", "2", "3", "4", ",", "5", "6">>
               => res = Returned(Fin(123456, 100))

C5_Witness ==
    /\ pc = "returned"
    /\ arg = <<"1", "2", ".", "3", "4", "5", ",", "6", "7">>
    /\ res = Returned(Fin(1234567, 100))

\* the positions of separator sep in s
SepPositions(s, sep) == {i \in 1..Len(s) : s[i] = sep}

Min(S) == CHOOSE x \in S : \A y \in S : x <= y

Max(S) == CHOOSE x \in S : \A y \in S : x >= y

\* one or two digits
ShortNumber(f) == Len(f) \in {1, 2} /\ AllDigits(f)

IsYearText(f) == Len(f) = 4 /\ AllDigits(f)

IsMonthText(f) == ShortNumber(f) /\ IntOf(f) \in 1..12

IsDayText(f) ==
    \/ ShortNumber(f) /\ IntOf(f) \in 1..31
    \/ Len(f) = 2 /\ f[1] = " " /\ In(f[2], 1, 9)

\* s read whole as three fields around two separators sep, the year first
\* or last, as a date of the calendar
ReadsAs(s, sep, yearFirst) ==
    LET ps == SepPositions(s, sep)
        f1 == SubSeq(s, 1, Min(ps) - 1)
        f2 == SubSeq(s, Min(ps) + 1, Max(ps) - 1)
        f3 == SubSeq(s, Max(ps) + 1, Len(s))
        yt == IF yearFirst THEN f1 ELSE f3
        dt == IF yearFirst THEN f3 ELSE f1
        y == IntOf(yt)
        m == IntOf(f2)
        d == IntOf(LStrip(dt))
    IN  IF /\ Cardinality(ps) = 2
           /\ IsYearText(yt) /\ IsMonthText(f2) /\ IsDayText(dt)
           /\ y >= 1 /\ d <= DaysInMonth(y, m)
        THEN [ok |-> TRUE, y |-> y, m |-> m, d |-> d]
        ELSE NoDate

\* the first of YYYY-MM-DD, DD/MM/YYYY, YYYY/MM/DD that reads the trimmed text
FirstReading(x) ==
    LET s == Strip(x)
    IN  IF ReadsAs(s, "-", TRUE).ok THEN ReadsAs(s, "-", TRUE)
        ELSE IF ReadsAs(s, "/", FALSE).ok THEN ReadsAs(s, "/", FALSE)
        ELSE ReadsAs(s, "/", TRUE)

\* C6: _parse_date returns the reading of the first of YYYY-MM-DD,
\* DD/MM/YYYY, YYYY/MM/DD that matches the whole trimmed text, so 03/04/2024
\* is day 3 of month 4; a text no format matches raises an error naming it.
C6_DatePriority ==
    pc = "returned" =>
        /\ res.date = FirstReading(arg)
        /\ res.date.ok => res.raised = NoError
        /\ ~res.date.ok => res.raised.type = "ValueError" /\ res.raised.text = <<arg>>
        /\ arg = <<"0", "3", "/", "0", "4", "/", "2", "0", "2", "4">>
               => res.date = [ok |-> TRUE, y |-> 2024, m |-> 4, d |-> 3]

C6_Witness ==
    /\ pc = "returned"
    /\ arg = <<"0", "3", "/", "0", "4", "/", "2", "0", "2", "4">>
    /\ res.date.ok /\ res.date.d = 3 /\ res.date.m = 4

\* C7: every row read_evm_csv returns has finite, non-NaN PV, EV and AC.
C7_RowsFinite ==
    \A i \in 1..Len(rows) :
        IsFinite(rows[i].pv) /\ IsFinite(rows[i].ev) /\ IsFinite(rows[i].ac)

\* field f of raw row r has an unparseable date, or an amount that is empty
\* or non-numeric
FieldBad(r, f) ==
    IF f = "Date" THEN ~ParseDate(r.Date).ok
    ELSE ~ToFloat(r[f]).ok \/ IsNaN(ToFloat(r[f]).v)

RowBad(r) == \E f \in {"Date", "PV", "EV", "AC"} : FieldBad(r, f)

SomeRowBad == \E k \in 1..Len(raw.data) : RowBad(raw.data[k])

FirstBadRow == Min({k \in 1..Len(raw.data) : RowBad(raw.data[k])})

\* the run stopped in read_evm_csv at the first bad row: nothing computed,
\* nothing written
AbortedAtFirstBadRow ==
    /\ pc = "failed"
    /\ rows = <<>> /\ out = <<>>
    /\ ~artifact.written /\ ~madeDir
    /\ err.type = "ValueError"
    /\ err.row = FirstBadRow + 1

\* C8: a bad data row aborts the run in read_evm_csv with a diagnostic that
\* identifies the row and the field that caused it; compute_evm and
\* write_csv are never reached and nothing is written.
C8_RowAndFieldNamed ==
    pc # "read" /\ SomeRowBad =>
        /\ AbortedAtFirstBadRow
        /\ \E f \in {"Date", "PV", "EV", "AC"} :
               FieldBad(raw.data[FirstBadRow], f) /\ err.names = {f}

Orderings(n) == {p \in [1..n -> 1..n] : \A i, j \in 1..n : p[i] = p[j] => i = j}

\* the file orders of the data rows d
Shuffles(d) == {[i \in 1..Len(d) |-> d[p[i]]] : p \in Orderings(Len(d))}

\* reading and computing from data rows d gives the ledger, detail and
\* summary this run has
SameOutcome(d) ==
    LET r == ReadEvmCsv([raw EXCEPT !.data = d])
    IN  /\ r.ok
        /\ r.rows = rows
        /\ ComputeEvm(r.rows, bac) = [detail |-> out, summary |-> summary]

DistinctDates == \A i, j \in 1..Len(rows) : i # j => rows[i].date # rows[j].date

\* C9 as claimed: every file order of the same valid rows gives the same
\* ledger, detail and summary, rows sharing a date included.
C9_AnyOrder == Computed => \A d \in Shuffles(raw.data) : SameOutcome(d)

\* C9: every file order of the same valid rows gives the same ledger,
\* detail and summary, provided no two rows have the same date.
C9_DistinctDates ==
    Computed /\ DistinctDates => \A d \in Shuffles(raw.data) : SameOutcome(d)

C9_Witness ==
    /\ Computed
    /\ Len(rows) = 2
    /\ DistinctDates
    /\ ParseDate(raw.data[1].Date) = rows[2].date
    /\ rows[1].pv # rows[2].pv

SummaryFields ==
    {"BAC", "BAC_source", "PV_cum", "EV_cum", "AC_cum", "SPI", "CPI", "SV", "CV",
     "EAC_CPI", "ETC_CPI", "VAC_CPI", "EAC_CPI_SPI", "ETC_CPI_SPI", "VAC_CPI_SPI"}

\* C10: on an empty ledger compute_evm returns no detail and a complete
\* summary of finite numbers and not-a-numbers (BAC the supplied one or 0,
\* cumulative PV/EV/AC 0, SPI/CPI/SV/CV and the six forecasts
\* not-a-number); the failure comes only after, from write_csv.
C10_EmptyLedger ==
    /\ Computed /\ rows = <<>> =>
        /\ out = <<>>
        /\ DOMAIN summary = SummaryFields
        /\ \A f \in SummaryFields \ {"BAC_source"} :
               IsFinite(summary[f]) \/ IsNaN(summary[f])
        /\ summary.BAC = IF bac.some THEN bac.v ELSE Zero
        /\ summary.BAC_source = IF bac.some THEN "user" ELSE "inferred_from_last_PV_cum"
        /\ \A f \in {"PV_cum", "EV_cum", "AC_cum"} : summary[f] = Zero
        /\ \A f \in SummaryFields \ {"BAC", "BAC_source", "PV_cum", "EV_cum", "AC_cum"} :
               IsNaN(summary[f])
    /\ pc = "write" => err = NoError
    /\ err.what = "No rows to write" => pc = "failed" /\ Computed /\ rows = <<>>
    /\ Computed /\ rows = <<>> /\ pc # "write" => err.what = "No rows to write"

C10_Witness ==
    /\ pc = "failed"
    /\ err.what = "No rows to write"
    /\ raw.exists /\ raw.hasHeader /\ raw.data = <<>>
    /\ bac = Some(Fin(5, 1))
    /\ IsNaN(summary.EAC_CPI)

====
